---- MODULE Spec2Model ----
(***************************************************************************)
(* go-azure: an HTTP server that shuts itself down when a new binary       *)
(* appears in a watched directory (src/main.go).                           *)
(*                                                                         *)
(* The model follows the goroutines of main.go:                            *)
(*   main        main(), http.Server.Serve's accept loop, waitClients()    *)
(*   watcher     the select loop started by startWatcher()                 *)
(*   closer      the goroutine started by stoppableListener.waitForClose() *)
(*   helper      the goroutine started by waitClients()                    *)
(*   connections callers of semConn.Close()                                *)
(*                                                                         *)
(* Library semantics used (Go runtime, sync, net, fsnotify):               *)
(*   - close() of a closed channel panics; an unrecovered panic ends the   *)
(*     process;                                                            *)
(*   - sync.WaitGroup.Add adds the delta and then panics when the counter  *)
(*     has become negative; Wait returns when the counter is zero;         *)
(*   - log.Fatalf writes its message and then ends the process; os.Exit    *)
(*     ends it at once; returning from main ends it with status 0;         *)
(*   - Accept on a closed listener fails; net/http's Serve retries after a *)
(*     temporary Accept failure and returns on any other one, calling the  *)
(*     listener's Close (deferred) on its way out;                         *)
(*   - w.Events and w.Errors are unbuffered: delivery of an event is a     *)
(*     rendezvous with the watcher's select;                               *)
(*   - a select with several ready cases chooses any of them.              *)
(*                                                                         *)
(* A goroutine that writes to the log (log.Printf, log.Println) can be     *)
(* held there while the others run, so the statements before and after     *)
(* such a write are separate steps.                                        *)
(*                                                                         *)
(* Time: the only timer is time.After(maxWait) in waitClients. `timer` is  *)
(* the whole number of time units elapsed since it was started. Time       *)
(* passes whether or not a goroutine can take a step.                      *)
(***************************************************************************)
EXTENDS Integers, Sequences, FiniteSets

---------------------------------------------------------------------------
(* Bounds of the model *)

\* connections a run may accept
MaxConns == 2
\* Close() calls a run may make, over all its connections
MaxCloseCalls == 2
\* filesystem events a run may deliver to the watcher
MaxEvents == 2
\* largest configured -maxWait, in time units
MaxDeadline == 1
\* temporary Accept failures a run may see
MaxTempErrs == 1

---------------------------------------------------------------------------
(* fsnotify.Op, as tested at main.go:148 *)

\* fsnotify.Create, the lowest of the five Op bits
\* (Create, Write, Remove, Rename, Chmod)
FsCreate == 1

\* Op values delivered: each single bit, Create together with each other
\* bit, Write|Remove, and all five bits
Ops == {1, 2, 4, 8, 16, 3, 5, 9, 17, 6, 31}

Conns == 1..MaxConns

VARIABLES
    proc,        \* "running" | "usage" | "success" | "forced" | "fatal" | "panic"
    pc,          \* position of main()
    maxWait,     \* config.maxWait
    ln,          \* underlying net.Listener: "unbound" | "open" | "closed"
    lnCloses,    \* calls of l.Listener.Close() made by the closer (main.go:57)
    srvCloses,   \* calls of the listener's Close made by Serve on its return
    fsw,         \* fsnotify watcher: "none" | "new" | "watching" | "addfailed" | "closed"
    wpc,         \* watcher goroutine: "none" | "loop" | "fire" | "fatalf" | "exited"
    newBin,      \* channel newBin closed?
    stop,        \* channel stop closed?
    fires,       \* executions of close(newBin)
    creates,     \* events with the Create bit received by the watcher
    others,      \* events without the Create bit received by the watcher
    gotErr,      \* the watcher received from w.Errors
    earlyFire,   \* close(newBin) ran before waitForClose had started the closer
    cpc,         \* closer goroutine: "none" | "wait" | "close" | "done"
    hpc,         \* waitClients helper goroutine: "none" | "wait" | "close" | "done"
    allClosed,   \* channel allClosed closed?
    timer,       \* -1: time.After not called; else time units elapsed since
    wg,          \* counter of the sync.WaitGroup wg
    wgAtWait,    \* counter when waitClients was called (-1 before)
    connSt,      \* per connection: "free" | "raw" (returned by the underlying
                 \* Accept, not yet by Accept) | "open" | "closed"
    closeCalls,  \* per connection: Close() calls that ran c.Conn.Close()
    dones,       \* per connection: Close() calls that ran wg.Done()
    lateClose,   \* some wg.Done() ran after the deadline had elapsed
    inflightErr, \* per connection: Close() calls between c.Conn.Close() and
                 \* wg.Done() whose err is non-nil
    lastRet,     \* what the latest returned Close() returned: "none" | "nil" | "err"
    lastAccept,  \* result of the latest Accept(): "none" | "ok" | "temporary" |
                 \* "closed" (error of a closed listener) | "failed" (another error)
    tempErrs     \* temporary Accept failures so far

vars == << proc, pc, maxWait, ln, lnCloses, srvCloses, fsw, wpc, newBin, stop, fires,
           creates, others, cpc, hpc, allClosed, timer, wg, wgAtWait, connSt,
           closeCalls, dones, lateClose, lastAccept, tempErrs, gotErr, earlyFire,
           inflightErr, lastRet >>

mainVars == << pc, ln, srvCloses >>
watcherVars == << fsw, wpc, newBin, stop, fires, creates, others, gotErr, earlyFire >>
closerVars == << cpc, lnCloses >>
drainVars == << hpc, allClosed, timer, wgAtWait >>
connVars == << wg, connSt, closeCalls, dones, lateClose, inflightErr, lastRet >>
acceptVars == << lastAccept, tempErrs >>

---------------------------------------------------------------------------
(* Pure helpers *)

RECURSIVE BitAnd(_, _)
\* bitwise AND of two naturals (Go's & on fsnotify.Op)
BitAnd(a, b) ==
    IF a = 0 \/ b = 0 THEN 0
    ELSE (IF a % 2 = 1 /\ b % 2 = 1 THEN 1 ELSE 0) + 2 * BitAnd(a \div 2, b \div 2)

\* a slip: testing the Write bit (2) instead of the Create bit
IsCreate_WrongBit(op) == BitAnd(op, 2) = 2

\* evt.Op&fsnotify.Create == fsnotify.Create
IsCreate(op) == BitAnd(op, FsCreate) = FsCreate

Running == proc = "running"

\* the channel returned by time.After(maxWait) holds a value
TimerReady == timer >= 0 /\ timer >= maxWait

\* an Accept error of any kind
AcceptErr(r) == r \in {"temporary", "closed", "failed"}

\* connections the underlying listener has handed out
Taken == {c \in Conns : connSt[c] # "free"}

\* tracked connections: those Accept has returned
Accepted == {c \in Conns : connSt[c] \in {"open", "closed"}}

RECURSIVE SumUpTo(_, _)
\* f[1] + ... + f[n]
SumUpTo(f, n) == IF n = 0 THEN 0 ELSE f[n] + SumUpTo(f, n - 1)

\* Close() calls made so far
TotalCloseCalls == SumUpTo(closeCalls, MaxConns)

\* connections are numbered in the order Accept returns them
NextConn == IF Taken = Conns THEN 0 ELSE Cardinality(Taken) + 1

Init ==
    /\ proc = "running"
    /\ pc = "start"
    /\ maxWait \in 0..MaxDeadline
    /\ ln = "unbound"
    /\ lnCloses = 0
    /\ srvCloses = 0
    /\ fsw = "none"
    /\ wpc = "none"
    /\ newBin = FALSE
    /\ stop = FALSE
    /\ fires = 0
    /\ creates = 0
    /\ others = 0
    /\ cpc = "none"
    /\ hpc = "none"
    /\ allClosed = FALSE
    /\ timer = -1
    /\ wg = 0
    /\ wgAtWait = -1
    /\ connSt = [c \in Conns |-> "free"]
    /\ closeCalls = [c \in Conns |-> 0]
    /\ dones = [c \in Conns |-> 0]
    /\ lateClose = FALSE
    /\ lastAccept = "none"
    /\ tempErrs = 0
    /\ gotErr = FALSE
    /\ earlyFire = FALSE
    /\ inflightErr = [c \in Conns |-> 0]
    /\ lastRet = "none"

---------------------------------------------------------------------------
(* main(): startup, main.go:67-84 *)

\* flag.Parse(); without the directory argument printUsage() prints the usage
\* line and calls os.Exit(0)
MainFlagParse ==
    /\ Running /\ pc = "start"
    /\ \E narg \in 0..1 :
          IF narg < 1
          THEN proc' = "usage" /\ pc' = pc
          ELSE proc' = proc /\ pc' = "listen"
    /\ UNCHANGED << maxWait, ln, srvCloses, watcherVars, closerVars, drainVars,
                    connVars, acceptVars >>

\* l, err := net.Listen(...); a failure is fatal
MainListen ==
    /\ Running /\ pc = "listen"
    /\ \/ /\ ln' = "open"
          /\ pc' = "startWatcher"
          /\ proc' = proc
       \/ /\ proc' = "fatal"
          /\ UNCHANGED << pc, ln >>
    /\ UNCHANGED << maxWait, srvCloses, watcherVars, closerVars, drainVars, connVars, acceptVars >>

\* startWatcher(): fsnotify.NewWatcher (a failure is fatal), the two
\* channels, and the start of the watcher goroutine
MainNewWatcher ==
    /\ Running /\ pc = "startWatcher"
    /\ \/ /\ fsw' = "new"
          /\ wpc' = "loop"
          /\ pc' = "wAdd"
          /\ proc' = proc
       \/ /\ proc' = "fatal"
          /\ UNCHANGED << pc, fsw, wpc >>
    /\ UNCHANGED << maxWait, ln, srvCloses, newBin, stop, fires, creates, others, gotErr, earlyFire,
                    closerVars, drainVars, connVars, acceptVars >>

\* w.Add(config.watchDir): the returned error is dropped, startWatcher
\* returns either way
MainWatchAdd ==
    /\ Running /\ pc = "wAdd"
    /\ fsw = "new"
    /\ fsw' \in {"watching", "addfailed"}
    /\ pc' = "arm"
    /\ UNCHANGED << proc, maxWait, ln, srvCloses, wpc, newBin, stop, fires, creates, others, gotErr, earlyFire,
                    closerVars, drainVars, connVars, acceptVars >>

\* a slip: time.After evaluated before s.Serve, so the deadline runs while serving
MainArm_EarlyTimer ==
    /\ Running /\ pc = "arm"
    /\ cpc' = "wait"
    /\ pc' = "serve"
    /\ timer' = 0
    /\ UNCHANGED << proc, maxWait, ln, srvCloses, lnCloses, watcherVars, hpc, allClosed,
                    wgAtWait, connVars, acceptVars >>

\* sl.waitForClose(): starts the closer goroutine
MainArm ==
    /\ Running /\ pc = "arm"
    /\ cpc' = "wait"
    /\ pc' = "serve"
    /\ UNCHANGED << proc, maxWait, ln, srvCloses, lnCloses, watcherVars, drainVars, connVars,
                    acceptVars >>

---------------------------------------------------------------------------
(* stoppableListener.Accept under s.Serve(sl), main.go:40-51 and 94 *)

\* c, err = l.Listener.Accept() hands out a connection (err == nil); Accept
\* goes on to its log.Printf
AcceptConn ==
    /\ Running /\ pc = "serve"
    /\ ln = "open"
    /\ NextConn # 0
    /\ connSt' = [connSt EXCEPT ![NextConn] = "raw"]
    /\ pc' = "acceptAdd"
    /\ UNCHANGED << proc, maxWait, ln, srvCloses, watcherVars, closerVars, drainVars,
                    wg, closeCalls, dones, lateClose, inflightErr, lastRet, acceptVars >>

\* a slip: the accept loop left running beside main after Serve was left
AcceptOk_Late ==
    /\ Running /\ pc \in {"acceptAdd", "stopWatcher", "waitClients", "select"}
    /\ \E c \in Conns :
          /\ IF pc = "acceptAdd" THEN connSt[c] = "raw" ELSE c = NextConn
          /\ connSt' = [connSt EXCEPT ![c] = "open"]
    /\ wg' = wg + 1
    /\ lastAccept' = "ok"
    /\ pc' = IF pc = "acceptAdd" THEN "serve" ELSE pc
    /\ UNCHANGED << proc, maxWait, ln, srvCloses, watcherVars, closerVars, drainVars,
                    closeCalls, dones, lateClose, inflightErr, lastRet, tempErrs >>

\* c = semConn{Conn: c}; wg.Add(1); return: the connection is wrapped, counted
\* and returned to Serve, which hands it to its handler goroutine
AcceptOk ==
    /\ Running /\ pc = "acceptAdd"
    /\ \E c \in Conns :
          /\ connSt[c] = "raw"
          /\ connSt' = [connSt EXCEPT ![c] = "open"]
    /\ wg' = wg + 1
    /\ lastAccept' = "ok"
    /\ pc' = "serve"
    /\ UNCHANGED << proc, maxWait, ln, srvCloses, watcherVars, closerVars, drainVars,
                    closeCalls, dones, lateClose, inflightErr, lastRet, tempErrs >>

\* the underlying Accept fails temporarily on the open listener: Accept
\* returns the error, Serve sleeps and calls Accept again
AcceptTempErr ==
    /\ Running /\ pc = "serve"
    /\ ln = "open"
    /\ tempErrs < MaxTempErrs
    /\ tempErrs' = tempErrs + 1
    /\ lastAccept' = "temporary"
    /\ UNCHANGED << proc, maxWait, mainVars, watcherVars, closerVars, drainVars,
                    connVars >>

\* a slip: counting the connection before looking at err
AcceptFail_Leak ==
    /\ Running /\ pc = "serve"
    /\ lastAccept' = IF ln = "closed" THEN "closed" ELSE "failed"
    /\ wg' = wg + 1
    /\ pc' = "srvClose"
    /\ UNCHANGED << proc, maxWait, ln, srvCloses, watcherVars, closerVars, drainVars,
                    connSt, closeCalls, dones, lateClose, inflightErr, lastRet, tempErrs >>

\* the underlying Accept fails for good, as it does on the closed listener
\* and may do on the open one: Accept returns the error before wg.Add, and
\* Serve leaves its loop
AcceptFail ==
    /\ Running /\ pc = "serve"
    /\ lastAccept' = IF ln = "closed" THEN "closed" ELSE "failed"
    /\ pc' = "srvClose"
    /\ UNCHANGED << proc, maxWait, ln, srvCloses, watcherVars, closerVars, drainVars,
                    connVars, tempErrs >>

\* Serve's deferred l.Close(): Close is promoted from the embedded
\* net.Listener, so this is l.Listener.Close() once more; Serve returns
ServeClose ==
    /\ Running /\ pc = "srvClose"
    /\ ln' = "closed"
    /\ srvCloses' = srvCloses + 1
    /\ pc' = "stopWatcher"
    /\ UNCHANGED << proc, maxWait, watcherVars, closerVars, drainVars, connVars,
                    acceptVars >>

---------------------------------------------------------------------------
(* main() after Serve returned, and waitClients, main.go:96-118 *)

\* a slip: the stop request left out
MainStopWatcher_Skip ==
    /\ Running /\ pc = "stopWatcher"
    /\ pc' = "waitClients"
    /\ UNCHANGED << proc, maxWait, ln, srvCloses, watcherVars, closerVars, drainVars,
                    connVars, acceptVars >>

\* close(sync.stopWatcher)
MainStopWatcher ==
    /\ Running /\ pc = "stopWatcher"
    /\ stop' = TRUE
    /\ pc' = "waitClients"
    /\ UNCHANGED << proc, maxWait, ln, srvCloses, fsw, wpc, newBin, fires, creates, others, gotErr, earlyFire,
                    closerVars, drainVars, connVars, acceptVars >>

\* waitClients: time.After(maxWait), make(allClosed), start of the helper
MainWaitClients ==
    /\ Running /\ pc = "waitClients"
    /\ timer' = 0
    /\ hpc' = "wait"
    /\ wgAtWait' = wg
    /\ pc' = "select"
    /\ UNCHANGED << proc, maxWait, ln, srvCloses, watcherVars, closerVars, allClosed,
                    connVars, acceptVars >>

\* case <-timeout: os.Exit(-1)
MainSelectTimeout ==
    /\ Running /\ pc = "select"
    /\ TimerReady
    /\ proc' = "forced"
    /\ UNCHANGED << maxWait, mainVars, watcherVars, closerVars, drainVars,
                    connVars, acceptVars >>

\* case <-allClosed: waitClients and main return
MainSelectAllClosed ==
    /\ Running /\ pc = "select"
    /\ allClosed
    /\ pc' = "done"
    /\ proc' = "success"
    /\ UNCHANGED << maxWait, ln, srvCloses, watcherVars, closerVars, drainVars,
                    connVars, acceptVars >>

\* wg.Wait() returns
HelperWait ==
    /\ Running /\ hpc = "wait"
    /\ wg = 0
    /\ hpc' = "close"
    /\ UNCHANGED << proc, maxWait, mainVars, watcherVars, closerVars, allClosed,
                    timer, wgAtWait, connVars, acceptVars >>

\* close(allClosed)
HelperClose ==
    /\ Running /\ hpc = "close"
    /\ allClosed' = TRUE
    /\ hpc' = "done"
    /\ UNCHANGED << proc, maxWait, mainVars, watcherVars, closerVars, timer,
                    wgAtWait, connVars, acceptVars >>

---------------------------------------------------------------------------
(* the goroutine of waitForClose, main.go:54-58 *)

\* a slip: closing without waiting for the signal
CloserRecv_NoWait ==
    /\ Running /\ cpc = "wait"
    /\ cpc' = "close"
    /\ UNCHANGED << proc, maxWait, mainVars, watcherVars, lnCloses, drainVars,
                    connVars, acceptVars >>

\* <-l.initShutdown
CloserRecv ==
    /\ Running /\ cpc = "wait"
    /\ newBin
    /\ cpc' = "close"
    /\ UNCHANGED << proc, maxWait, mainVars, watcherVars, lnCloses, drainVars,
                    connVars, acceptVars >>

\* a slip: closing the accepted connections together with the listener
CloserClose_Sever ==
    /\ Running /\ cpc = "close"
    /\ ln' = "closed"
    /\ lnCloses' = lnCloses + 1
    /\ cpc' = "done"
    /\ connSt' = [c \in Conns |-> IF connSt[c] = "open" THEN "closed" ELSE connSt[c]]
    /\ wg' = wg - Cardinality({c \in Conns : connSt[c] = "open"})
    /\ UNCHANGED << proc, maxWait, pc, srvCloses, watcherVars, drainVars, closeCalls, dones,
                    lateClose, inflightErr, lastRet, acceptVars >>

\* l.Listener.Close()
CloserClose ==
    /\ Running /\ cpc = "close"
    /\ ln' = "closed"
    /\ lnCloses' = lnCloses + 1
    /\ cpc' = "done"
    /\ UNCHANGED << proc, maxWait, pc, srvCloses, watcherVars, drainVars, connVars,
                    acceptVars >>

---------------------------------------------------------------------------
(* the watcher goroutine, main.go:143-159 *)

\* case evt := <-w.Events, and the test of evt.Op: with the Create bit the
\* watcher goes on to its log.Printf, without it back to the select
\* (creates and others record what was delivered, by the event's Create bit)
WatcherEvent(op) ==
    /\ Running /\ wpc = "loop"
    /\ fsw = "watching"
    /\ creates + others < MaxEvents
    /\ creates' = creates + (op % 2)
    /\ others' = others + 1 - (op % 2)
    /\ wpc' = IF IsCreate(op) THEN "fire" ELSE "loop"
    /\ UNCHANGED << proc, maxWait, mainVars, fsw, newBin, stop, fires, gotErr, earlyFire,
                    closerVars, drainVars, connVars, acceptVars >>

\* close(newBin), then back to the select; close of a closed channel panics
WatcherFire ==
    /\ Running /\ wpc = "fire"
    /\ fires' = fires + 1
    /\ IF newBin
       THEN /\ proc' = "panic"
            /\ UNCHANGED << newBin, wpc >>
       ELSE /\ newBin' = TRUE
            /\ wpc' = "loop"
            /\ proc' = proc
    /\ earlyFire' = (earlyFire \/ (~newBin /\ cpc = "none"))
    /\ UNCHANGED << maxWait, mainVars, fsw, stop, creates, others, gotErr,
                    closerVars, drainVars, connVars, acceptVars >>

\* case err := <-w.Errors: the watcher enters log.Fatalf
WatcherError ==
    /\ Running /\ wpc = "loop"
    /\ fsw \in {"new", "watching", "addfailed"}
    /\ gotErr' = TRUE
    /\ wpc' = "fatalf"
    /\ UNCHANGED << proc, maxWait, mainVars, fsw, newBin, stop, fires, creates,
                    others, earlyFire, closerVars, drainVars, connVars, acceptVars >>

\* log.Fatalf has written its message: os.Exit(1)
WatcherFatal ==
    /\ Running /\ wpc = "fatalf"
    /\ proc' = "fatal"
    /\ UNCHANGED << maxWait, mainVars, watcherVars, closerVars, drainVars,
                    connVars, acceptVars >>

\* case <-stop: w.Close(); break Loop
WatcherStop ==
    /\ Running /\ wpc = "loop"
    /\ stop
    /\ fsw' = "closed"
    /\ wpc' = "exited"
    /\ UNCHANGED << proc, maxWait, mainVars, newBin, stop, fires, creates, others, gotErr, earlyFire,
                    closerVars, drainVars, connVars, acceptVars >>

---------------------------------------------------------------------------
(* semConn.Close, main.go:28-33, called by any holder of the connection *)

\* err = c.Conn.Close(): closing the open connection succeeds or fails, closing
\* it again fails
ConnClose(c) ==
    /\ Running
    /\ connSt[c] \in {"open", "closed"}
    /\ TotalCloseCalls < MaxCloseCalls
    /\ connSt' = [connSt EXCEPT ![c] = "closed"]
    /\ closeCalls' = [closeCalls EXCEPT ![c] = @ + 1]
    /\ \E failed \in (IF connSt[c] = "open" THEN BOOLEAN ELSE {TRUE}) :
          inflightErr' = [inflightErr EXCEPT ![c] = @ + (IF failed THEN 1 ELSE 0)]
    /\ UNCHANGED << proc, maxWait, mainVars, watcherVars, closerVars, drainVars,
                    wg, dones, lateClose, lastRet, acceptVars >>

\* a slip: returning early on a close error, before wg.Done()
ConnDone_SkipOnErr(c) ==
    /\ Running
    /\ dones[c] < closeCalls[c]
    /\ \E failed \in BOOLEAN :
          /\ IF failed THEN inflightErr[c] > 0
                       ELSE closeCalls[c] - dones[c] - inflightErr[c] > 0
          /\ wg' = IF failed THEN wg ELSE wg - 1
          /\ inflightErr' = [inflightErr EXCEPT ![c] = @ - (IF failed THEN 1 ELSE 0)]
          /\ proc' = IF wg' < 0 THEN "panic" ELSE proc
          /\ lastRet' = IF wg' < 0 THEN lastRet ELSE IF failed THEN "err" ELSE "nil"
    /\ dones' = [dones EXCEPT ![c] = @ + 1]
    /\ lateClose' = (lateClose \/ TimerReady)
    /\ UNCHANGED << maxWait, mainVars, watcherVars, closerVars, drainVars,
                    connSt, closeCalls, acceptVars >>

\* log.Printf; wg.Done(); return (err as c.Conn.Close() gave it). A Done that
\* takes the counter below zero panics and nothing is returned.
ConnDone(c) ==
    /\ Running
    /\ dones[c] < closeCalls[c]
    /\ \E failed \in BOOLEAN :
          /\ IF failed THEN inflightErr[c] > 0
                       ELSE closeCalls[c] - dones[c] - inflightErr[c] > 0
          /\ inflightErr' = [inflightErr EXCEPT ![c] = @ - (IF failed THEN 1 ELSE 0)]
          /\ lastRet' = IF wg - 1 < 0 THEN lastRet ELSE IF failed THEN "err" ELSE "nil"
    /\ wg' = wg - 1
    /\ dones' = [dones EXCEPT ![c] = @ + 1]
    /\ lateClose' = (lateClose \/ TimerReady)
    /\ proc' = IF wg - 1 < 0 THEN "panic" ELSE proc
    /\ UNCHANGED << maxWait, mainVars, watcherVars, closerVars, drainVars,
                    connSt, closeCalls, acceptVars >>

---------------------------------------------------------------------------
(* time *)

\* one time unit passes while time.After's timer runs
Tick ==
    /\ Running
    /\ timer >= 0 /\ timer < maxWait
    /\ timer' = timer + 1
    /\ UNCHANGED << proc, maxWait, mainVars, watcherVars, closerVars, hpc,
                    allClosed, wgAtWait, connVars, acceptVars >>

---------------------------------------------------------------------------

ProgramStep ==
    \/ MainFlagParse \/ MainListen \/ MainNewWatcher \/ MainWatchAdd \/ MainArm
    \/ AcceptOk \/ (AcceptFail /\ ln = "closed") \/ ServeClose
    \/ MainStopWatcher \/ MainWaitClients
    \/ MainSelectTimeout \/ MainSelectAllClosed
    \/ HelperWait \/ HelperClose
    \/ CloserRecv \/ CloserClose
    \/ WatcherFire \/ WatcherFatal \/ WatcherStop
    \/ \E c \in Conns : ConnDone(c)

Next ==
    \/ MainFlagParse
    \/ MainListen
    \/ MainNewWatcher
    \/ MainWatchAdd
    \/ MainArm
    \/ AcceptConn
    \/ AcceptOk
    \/ AcceptTempErr
    \/ AcceptFail
    \/ ServeClose
    \/ MainStopWatcher
    \/ MainWaitClients
    \/ MainSelectTimeout
    \/ MainSelectAllClosed
    \/ HelperWait
    \/ HelperClose
    \/ CloserRecv
    \/ CloserClose
    \/ \E op \in Ops : WatcherEvent(op)
    \/ WatcherFire
    \/ WatcherError
    \/ WatcherFatal
    \/ WatcherStop
    \/ \E c \in Conns : ConnClose(c)
    \/ \E c \in Conns : ConnDone(c)
    \/ Tick

Spec == Init /\ [][Next]_vars

\* goroutines that can run do run, and time passes
FairSpec == Spec /\ WF_vars(ProgramStep) /\ WF_vars(Tick)

---------------------------------------------------------------------------
(* Properties *)

\* connections whose Close() has not been called
NotYetClosed == {c \in Accepted : closeCalls[c] = 0}

\* main has left the serving loop
LeftServing == pc \in {"stopWatcher", "waitClients", "select", "done"}

\* C1: once every Close() call on a tracked connection has returned, the
\* calls have decremented the counter exactly once in total, however many
\* calls there were.
C1_DoubleCloseOneDecrement ==
    \A c \in Conns :
        (closeCalls[c] >= 1 /\ dones[c] = closeCalls[c]) => dones[c] = 1

\* C2: the signal is fired at most once: close(newBin) is executed for the
\* first create event and for no later one.
C2_SignalFiresOnce == fires <= 1

\* C3: the counter is never negative, and while no connection has been
\* closed more than once it equals the number of accepted connections whose
\* close has not decremented it yet (so it is zero exactly when all have).
C3_CounterMatchesOpen ==
    /\ wg >= 0
    /\ (\A c \in Conns : closeCalls[c] <= 1)
          => wg = Cardinality({c \in Accepted : dones[c] = 0})

\* C4: when waitClients is called with the counter at zero, the timeout
\* branch is never taken, whatever the deadline.
C4_ZeroCounterDrains == (wgAtWait = 0) => proc # "forced"

\* C5: when every accepted connection has been closed exactly once, each
\* before the deadline elapsed (among them: no connection accepted at all),
\* waitClients ends in the allClosed branch, never in the timeout branch.
C5_ClosedInTimeSucceeds ==
    ( /\ proc \in {"success", "forced"}
      /\ \A c \in Accepted : closeCalls[c] = 1 /\ dones[c] = 1
      /\ ~lateClose )
        => proc = "success"

\* C6: when the signal has fired and an accepted connection is never closed,
\* the process ends by the timeout branch, and only once the deadline has
\* elapsed. (An exit through log.Fatalf on a watcher error is left aside.)
C6_StuckConnForcedExit ==
    ( /\ fires >= 1
      /\ NotYetClosed # {}
      /\ proc \notin {"running", "fatal"} )
        => (proc = "forced" /\ TimerReady)

\* C7: an Accept called once the listener is closed returns the error, hands
\* out no connection and leaves the counter and the tracked connections
\* alone; the underlying Accept hands out a connection only on the open
\* listener; the counter goes up only by one, only in the Accept whose
\* underlying Accept handed out a connection, which it returns as the one new
\* tracked connection; an Accept that returns an error leaves counter and
\* connections alone. (An Accept whose underlying Accept succeeded just
\* before the close still counts and returns its connection.)
C7_NoAcceptAfterClose ==
    [][ /\ (ln = "closed" /\ pc = "serve" /\ pc' # pc)
              => /\ lastAccept' = "closed"
                 /\ pc' = "srvClose"
                 /\ wg' = wg /\ connSt' = connSt
        /\ (Taken' # Taken) => (ln = "open" /\ pc = "serve" /\ pc' = "acceptAdd")
        /\ (wg' > wg) => /\ wg' = wg + 1
                         /\ pc = "acceptAdd"
                         /\ lastAccept' = "ok"
                         /\ Cardinality(Accepted') = Cardinality(Accepted) + 1
        /\ (Accepted' # Accepted) => wg' = wg + 1
        /\ (pc = "serve" /\ (acceptVars' # acceptVars \/ pc' = "srvClose"))
              => (AcceptErr(lastAccept') /\ wg' = wg /\ connSt' = connSt) ]_vars

\* the serving loop has returned on the closed listener's Accept failure,
\* with connections accepted and counted before
C7_Witness ==
    /\ pc = "stopWatcher" /\ ln = "closed" /\ lastAccept = "closed"
    /\ wg >= 1 /\ wg = Cardinality(Accepted)

\* C8: as long as no event with the Create bit has been delivered, the
\* signal is pending (the watcher is not on its way to close(newBin) and has
\* never executed it), the closer has not closed the listener, and Serve has
\* been left, if at all, by an Accept failure of the open listener; and the
\* delivery of an event without the Create bit leaves the watcher in its
\* select and changes nothing else: signal, listener, main and the process
\* are as they were.
C8_NonCreateKeepsServing ==
    /\ [] ( (creates = 0) =>
               /\ ~newBin /\ fires = 0 /\ wpc # "fire"
               /\ lnCloses = 0 /\ cpc \in {"none", "wait"}
               /\ (ln = "closed" \/ LeftServing \/ pc = "srvClose")
                     => lastAccept = "failed" )
    /\ [][ (others' # others) =>
               /\ wpc' = "loop"
               /\ UNCHANGED << proc, maxWait, mainVars, fsw, newBin, stop, fires,
                               creates, gotErr, earlyFire, closerVars, drainVars,
                               connVars, acceptVars >> ]_vars

\* two non-create events were delivered while serving
C8_Witness ==
    /\ creates = 0 /\ others >= 2
    /\ pc = "serve" /\ proc = "running" /\ ln = "open" /\ wg >= 1

\* C9: the program's own code closes the listener at most once (the one
\* l.Listener.Close() of the closer goroutine), and the closer gets to that
\* close only after the signal has fired; as long as the signal is pending
\* the listener is closed by nothing but Serve's own Close on its return.
C9_CloseOnceAfterFire ==
    /\ lnCloses <= 1
    /\ (lnCloses = 1) <=> (cpc = "done")
    /\ (cpc \in {"close", "done"}) => (newBin /\ fires >= 1)
    /\ (ln = "closed" /\ ~newBin) => (lnCloses = 0 /\ srvCloses = 1)

\* the closer goroutine has closed the listener
C9_Witness == ln = "closed" /\ lnCloses = 1 /\ cpc = "done" /\ newBin

\* C10: once the signal has fired, a process that has ended has ended by one
\* of the two exits of waitClients, with the listener closed and the serving
\* loop left. (An exit through log.Fatalf on a watcher error is left aside.)
C10_FiredRunsToExit ==
    (fires >= 1 /\ proc \notin {"running", "fatal"})
        => (proc \in {"success", "forced"} /\ ln = "closed" /\ LeftServing)

\* C11: when registering the watched directory with the watcher has failed,
\* main never gets to the serving loop.
C11_WatchInitFailureIsFatal ==
    (fsw = "addfailed") => (pc \notin {"serve"} /\ ~LeftServing)

\* C13: a step that closes the listener, or calls its Close again, changes
\* no connection and leaves the counter as it is.
C13_ListenerCloseKeepsConns ==
    [][ (ln' # ln \/ lnCloses' # lnCloses \/ srvCloses' # srvCloses)
            => UNCHANGED << wg, connSt, closeCalls, dones >> ]_vars

\* the listener is closed while a counted connection is still open
C13_Witness ==
    /\ ln = "closed" /\ cpc = "done"
    /\ wg >= 1 /\ \E c \in Conns : connSt[c] = "open"

\* C14: the stop channel is closed by the one step of main that follows the
\* return of Serve, and stays closed; the drain wait (timer, helper) starts
\* only with the stop channel closed; while main is in or before the serving
\* loop neither has happened.
C14_StopThenDrain ==
    /\ [] /\ stop => (LeftServing /\ pc # "stopWatcher")
          /\ (timer >= 0 \/ hpc # "none") => stop
          /\ (LeftServing /\ pc # "stopWatcher") => stop
    /\ [][ /\ stop => stop'
           /\ (stop' # stop) => (pc = "stopWatcher" /\ pc' = "waitClients")
           /\ (pc' = "stopWatcher") => (pc \in {"srvClose", "stopWatcher"}) ]_vars

\* the drain wait is running after the stop request
C14_Witness == stop /\ pc = "select" /\ timer >= 0 /\ hpc = "wait" /\ proc = "running"

\* C15: when the process has left by one of the exits of waitClients, the
\* watcher goroutine has released the fsnotify watcher and left its loop.
C15_WatcherReleasedBeforeExit ==
    (proc \in {"success", "forced"}) => (fsw = "closed" /\ wpc = "exited")

\* C17: the process never ends by an unrecovered panic.
C17_NoRuntimeFault == proc # "panic"

\* C18: once main has left the serving loop (so also during the drain wait)
\* the counter never goes up.
C18_NoIncrementWhileDraining ==
    [][ (LeftServing \/ timer >= 0 \/ hpc # "none") => wg' <= wg ]_vars

\* the drain wait is running with connections counted before it began
C18_Witness == pc = "select" /\ hpc = "wait" /\ wg >= 1 /\ wg = wgAtWait

\* C20: the timer runs only once main is in waitClients' select, and the
\* timeout exit is taken only there.
C20_TimerStartsAtDrain ==
    /\ (timer >= 0) => pc \in {"select", "done"}
    /\ (proc = "forced") => (pc = "select" /\ TimerReady)
    /\ (pc \in {"start", "listen", "startWatcher", "wAdd", "arm", "serve",
               "acceptAdd", "srvClose"})
          => (timer = -1 /\ proc # "forced")

\* the timeout exit was taken after a deadline of at least one time unit ran out
C20_Witness == proc = "forced" /\ maxWait >= 1 /\ timer = maxWait /\ wg >= 1

\* C12: every Close() call that gets through wg.Done() takes the counter
\* down by one, whether its c.Conn.Close() failed or not, and what it
\* returns is the result its c.Conn.Close() gave.
C12_CloseErrorStillCounts ==
    [][ \A c \in Conns :
          (dones'[c] # dones[c]) =>
             /\ dones'[c] = dones[c] + 1
             /\ wg' = wg - 1
             /\ (proc' # "panic") =>
                   \/ lastRet' = "err" /\ inflightErr[c] > 0
                                       /\ inflightErr'[c] = inflightErr[c] - 1
                   \/ lastRet' = "nil" /\ inflightErr'[c] = inflightErr[c]
                                       /\ closeCalls[c] - dones[c] - inflightErr[c] > 0 ]_vars

\* the only Close() of a connection failed in c.Conn.Close(), returned the
\* error, and the counter is down to zero
C12_Witness ==
    /\ lastRet = "err" /\ wg = 0 /\ proc = "running"
    /\ \E c \in Conns : closeCalls[c] = 1 /\ dones[c] = 1
    /\ \A c \in Conns : closeCalls[c] <= 1

\* C16: once the watcher has received from w.Errors it does not get back to
\* its loop, and the process, once it has ended, has ended through log.Fatalf
\* with the fatal status.
C16_WatcherErrorIsFatal ==
    gotErr => (wpc = "fatalf" /\ proc \in {"running", "fatal"})

\* C19: when the signal fired before the closer goroutine was started, a
\* process that has ended has had its listener closed and its serving loop
\* left. (An exit through log.Fatalf on a watcher error is left aside.)
C19_EarlySignalNotLost ==
    (earlyFire /\ proc \notin {"running", "fatal"}) => (ln = "closed" /\ LeftServing)

====
